---- MODULE Spec2Model ----
(***************************************************************************)
(* expo-exit-app: the ExitApp class (src/src/index.ts).                    *)
(*                                                                         *)
(* The model follows the JavaScript event loop: a call to exit or          *)
(* exitWithStrategy runs synchronously up to the await of the platform's   *)
(* reloadAsync() promise (the only promise the code awaits that the        *)
(* platform settles), and resumes when that promise settles.  The awaits   *)
(* of the class's own async methods are microtask hops: no timer and no    *)
(* platform event runs between them, so they are part of the same step.    *)
(* A setTimeout callback is a macrotask: it runs as a step of its own.     *)
(***************************************************************************)
EXTENDS Naturals, Sequences, FiniteSets, TLC

(***************************************************************************)
(* Bounds of the model.                                                    *)
(***************************************************************************)
\* how many calls of exit / exitWithStrategy a behaviour starts
MaxCalls == 1

(***************************************************************************)
(* ExitStrategy (src/src/types.ts).                                        *)
(***************************************************************************)
BACK_HANDLER == "backHandler"
RELOAD == "reload"
FORCE_CRASH == "forceCrash"
GRACEFUL == "graceful"

ExitStrategy == {BACK_HANDLER, RELOAD, FORCE_CRASH, GRACEFUL}

\* a value outside the enumeration, as an untyped caller can pass
UNKNOWN_STRATEGY == "unknown"

StrategyInputs == ExitStrategy \cup {UNKNOWN_STRATEGY}

(***************************************************************************)
(* ExitOptions: a record with any subset of the three optional fields.     *)
(***************************************************************************)
DefaultOptions ==
  [errorMessage |-> "App terminated", useReload |-> TRUE, forceDelay |-> 100]

\* the option record with the fields given (a field is omitted when its
\* argument is empty)
Spread3(e, u, f) ==
  [k \in (IF e = <<>> THEN {} ELSE {"errorMessage"})
         \cup (IF u = <<>> THEN {} ELSE {"useReload"})
         \cup (IF f = <<>> THEN {} ELSE {"forceDelay"}) |->
     IF k = "errorMessage" THEN e[1]
     ELSE IF k = "useReload" THEN u[1]
     ELSE f[1]]

\* the option records callers pass in the model
NoOptions == [k \in {} |-> TRUE]

OptionInputs ==
  { NoOptions,
    [useReload |-> FALSE, forceDelay |-> 5],
    [errorMessage |-> "X", forceDelay |-> 0] }

\* every option record over the values the model uses: each field omitted
\* or given
AllOptions ==
  { Spread3(e, u, f) :
      e \in {<<>>, <<"X">>}, u \in {<<>>, <<TRUE>>, <<FALSE>>},
      f \in {<<>>, <<0>>, <<5>>} }


\* the spread written { ...b, ...a }: the fields of a override those of b
SpreadReversed(a, b) ==
  [k \in (DOMAIN a) \cup (DOMAIN b) |-> IF k \in DOMAIN a THEN a[k] ELSE b[k]]

\* { ...a, ...b }: the fields of b override those of a
Spread(a, b) ==
  [k \in (DOMAIN a) \cup (DOMAIN b) |-> IF k \in DOMAIN b THEN b[k] ELSE a[k]]

(***************************************************************************)
(* Thrown values and the "instanceof Error ? error.message : generic"      *)
(* pattern of every catch block.                                           *)
(***************************************************************************)
ErrorObject(msg) == [isError |-> TRUE, message |-> msg]
\* a thrown or rejected value that is not an Error (a string, undefined, ...)
NonErrorValue == [isError |-> FALSE, message |-> ""]

MessageOr(error, generic) ==
  IF error.isError THEN error.message ELSE generic

(***************************************************************************)
(* ExitResult: error is a field of the failures only.                      *)
(***************************************************************************)
Success(strategy) == [success |-> TRUE, strategy |-> strategy]
Failure(strategy, msg) == [success |-> FALSE, strategy |-> strategy, error |-> msg]

(***************************************************************************)
(* What a synchronous segment of a handler produces: how it ends (return,  *)
(* throw, or suspended on the reload promise), and the platform primitives *)
(* it invoked on the way, in order (ev), and the timers it created.        *)
(***************************************************************************)
Return(r, ev, tm) ==
  [kind |-> "return", result |-> <<r>>, error |-> <<>>, ev |-> ev, timers |-> tm]
Throw(e, ev, tm) ==
  [kind |-> "throw", result |-> <<>>, error |-> <<e>>, ev |-> ev, timers |-> tm]
Await(ev, tm) ==
  [kind |-> "await", result |-> <<>>, error |-> <<>>, ev |-> ev, timers |-> tm]

\* step a, then (when a returned) step b: b's effects follow a's
Then(a, b) ==
  [b EXCEPT !.ev = a.ev \o b.ev, !.timers = a.timers \o b.timers]

(***************************************************************************)
(* The platform primitives as the code sees them.                          *)
(***************************************************************************)
\* how a callable primitive behaves at one invocation
Behaviours == {"returns", "throwsError", "throwsValue"}

\* how the reloadAsync() promise settles
Settlements == {"resolved", "rejectedError", "rejectedValue"}

\* BackHandler.exitApp(): a TypeError when exitApp is not a function
CallExitApp(present, behaviour) ==
  IF ~present
  THEN Throw(ErrorObject("BackHandler.exitApp is not a function"), <<>>, <<>>)
  ELSE IF behaviour = "returns"
  THEN Return(TRUE, <<"exitApp">>, <<>>)
  ELSE IF behaviour = "throwsError"
  THEN Throw(ErrorObject("exitApp failed"), <<"exitApp">>, <<>>)
  ELSE Throw(NonErrorValue, <<"exitApp">>, <<>>)

\* setTimeout(callback, delay): the callback is queued, not run
CallSetTimeout(errorMessage, delay, behaviour) ==
  IF behaviour = "returns"
  THEN Return(TRUE, <<"setTimeout">>,
              <<[errorMessage |-> errorMessage, delay |-> delay]>>)
  ELSE IF behaviour = "throwsError"
  THEN Throw(ErrorObject("setTimeout failed"), <<"setTimeout">>, <<>>)
  ELSE Throw(NonErrorValue, <<"setTimeout">>, <<>>)

\* Updates.reloadAsync(): a TypeError when reloadAsync is not a function,
\* a pending promise otherwise
CallReloadAsync(callable) ==
  IF ~callable
  THEN Throw(ErrorObject("Updates.reloadAsync is not a function"), <<>>, <<>>)
  ELSE Await(<<"reloadAsync">>, <<>>)

\* the value the awaited reloadAsync() promise settles to
Settled(settlement) ==
  IF settlement = "resolved"
  THEN Return(TRUE, <<>>, <<>>)
  ELSE IF settlement = "rejectedError"
  THEN Throw(ErrorObject("reload rejected"), <<>>, <<>>)
  ELSE Throw(NonErrorValue, <<>>, <<>>)

(***************************************************************************)
(* The state.                                                              *)
(***************************************************************************)
VARIABLES
  BackHandler,     \* whether BackHandler.exitApp is a function on this platform
  Updates,         \* the module-level Updates object: [isEnabled, reloadAsync]
  updatesInstalled,\* whether require('expo-updates') succeeded
  ErrorUtils,      \* whether global.ErrorUtils.reportFatalError is a function
  defaultOptions,  \* ExitApp.defaultOptions
  calls,           \* the calls started so far, in the order they started
  timers,          \* the setTimeout callbacks created so far, in order
  probe            \* the last capability probe and what it returned

vars ==
  <<BackHandler, Updates, updatesInstalled, ErrorUtils, defaultOptions,
    calls, timers, probe>>


\* a stub that reports itself enabled
UpdatesStubEnabled == [isEnabled |-> TRUE, reloadAsync |-> "null"]

\* the stub substituted when expo-updates cannot be required
UpdatesStub == [isEnabled |-> FALSE, reloadAsync |-> "null"]

(***************************************************************************)
(* The leaf handlers.                                                      *)
(***************************************************************************)

\* exitWithBackHandler with the call written BackHandler?.exitApp?.(): an
\* absent primitive is skipped and the leaf reports success
exitWithBackHandlerOptionalCall(present, behaviour) ==
  LET c == CallExitApp(present, behaviour)
  IN  IF c.kind = "return" \/ ~present
      THEN Return(Success(BACK_HANDLER), c.ev, c.timers)
      ELSE Return(Failure(BACK_HANDLER,
                          MessageOr(c.error[1], "BackHandler failed")),
                  c.ev, c.timers)

\* exitWithBackHandler without its try/catch: a throw leaves the leaf
exitWithBackHandlerNoCatch(present, behaviour) ==
  LET c == CallExitApp(present, behaviour)
  IN  IF c.kind = "return"
      THEN Return(Success(BACK_HANDLER), c.ev, c.timers)
      ELSE c

exitWithBackHandler(present, behaviour) ==
  LET c == CallExitApp(present, behaviour)
  IN  IF c.kind = "return"
      THEN Return(Success(BACK_HANDLER), c.ev, c.timers)
      ELSE Return(Failure(BACK_HANDLER,
                          MessageOr(c.error[1], "BackHandler failed")),
                  c.ev, c.timers)


\* exitWithReload without the isEnabled test
exitWithReloadNoEnabledCheck(updates) ==
  LET c == CallReloadAsync(updates.reloadAsync = "function")
  IN  IF c.kind = "await"
      THEN c
      ELSE Return(Failure(RELOAD, MessageOr(c.error[1], "Reload failed")),
                  c.ev, c.timers)

\* exitWithReload up to the await of Updates.reloadAsync()
exitWithReload(updates) ==
  IF updates.isEnabled
  THEN LET c == CallReloadAsync(updates.reloadAsync = "function")
       IN  IF c.kind = "await"
           THEN c
           ELSE Return(Failure(RELOAD, MessageOr(c.error[1], "Reload failed")),
                       c.ev, c.timers)
  ELSE Return(Failure(RELOAD, "Updates not enabled"), <<>>, <<>>)



\* exitWithReload whose try does not cover the await: a rejection leaves
\* the leaf
exitWithReloadSettledNoCatch(settlement) ==
  LET c == Settled(settlement)
  IN  IF c.kind = "return"
      THEN Return(Success(RELOAD), c.ev, c.timers)
      ELSE c

\* exitWithReload with "error: error.message" in its catch: a rejection
\* with a value that is no Error leaves the error field undefined
exitWithReloadSettledNoInstanceof(settlement) ==
  LET c == Settled(settlement)
  IN  IF c.kind = "return"
      THEN Return(Success(RELOAD), c.ev, c.timers)
      ELSE IF c.error[1].isError
      THEN Return(Failure(RELOAD, c.error[1].message), c.ev, c.timers)
      ELSE Return([success |-> FALSE, strategy |-> RELOAD], c.ev, c.timers)

\* exitWithReload from the moment the awaited promise settles
exitWithReloadSettled(settlement) ==
  LET c == Settled(settlement)
  IN  IF c.kind = "return"
      THEN Return(Success(RELOAD), c.ev, c.timers)
      ELSE Return(Failure(RELOAD, MessageOr(c.error[1], "Reload failed")),
                  c.ev, c.timers)


\* exitWithForceCrash running the callback at once when the delay is 0:
\* the raise happens inside the try and turns the result into a failure
exitWithForceCrashRunsNow(errorMessage, delay, behaviour) ==
  IF delay = 0
  THEN Return(Failure(FORCE_CRASH, errorMessage), <<>>, <<>>)
  ELSE LET c == CallSetTimeout(errorMessage, delay, behaviour)
       IN  IF c.kind = "return"
           THEN Return(Success(FORCE_CRASH), c.ev, c.timers)
           ELSE Return(Failure(FORCE_CRASH,
                               MessageOr(c.error[1], "Force crash failed")),
                       c.ev, c.timers)

exitWithForceCrash(errorMessage, delay, behaviour) ==
  LET c == CallSetTimeout(errorMessage, delay, behaviour)
  IN  IF c.kind = "return"
      THEN Return(Success(FORCE_CRASH), c.ev, c.timers)
      ELSE Return(Failure(FORCE_CRASH,
                          MessageOr(c.error[1], "Force crash failed")),
                  c.ev, c.timers)


\* the callback without its else: the error is raised after the hook too
forceCrashCallbackNoElse(errorMessage, hook) ==
  IF hook
  THEN [reported |-> <<errorMessage>>, uncaught |-> <<errorMessage>>]
  ELSE [reported |-> <<>>, uncaught |-> <<errorMessage>>]

\* the setTimeout callback of exitWithForceCrash
forceCrashCallback(errorMessage, hook) ==
  IF hook
  THEN [reported |-> <<errorMessage>>, uncaught |-> <<>>]
  ELSE [reported |-> <<>>, uncaught |-> <<errorMessage>>]

(***************************************************************************)
(* The graceful chain.                                                     *)
(***************************************************************************)

\* the fallback without "if (backHandlerResult.success) return"
exitGracefullyFallbackNoShortCircuit(config, present, bhBehaviour, stBehaviour) ==
  Then(exitWithBackHandler(present, bhBehaviour),
       exitWithForceCrash(config.errorMessage, config.forceDelay, stBehaviour))

\* the fallback trying the back-handler a second time when it failed
exitGracefullyFallbackRetries(config, present, bhBehaviour, stBehaviour) ==
  LET b == exitWithBackHandler(present, bhBehaviour)
      again == IF b.result[1].success
               THEN b
               ELSE Then(b, exitWithBackHandler(present, bhBehaviour))
  IN  IF again.result[1].success
      THEN again
      ELSE Then(again, exitWithForceCrash(config.errorMessage,
                                          config.forceDelay, stBehaviour))

\* exitGracefully from "Second try" on
exitGracefullyFallback(config, present, bhBehaviour, stBehaviour) ==
  LET b == exitWithBackHandler(present, bhBehaviour)
  IN  IF b.kind # "return" \/ b.result[1].success
      THEN b
      ELSE Then(b, exitWithForceCrash(config.errorMessage, config.forceDelay,
                                      stBehaviour))


\* exitGracefully without the useReload test
exitGracefullyAlwaysReload(config, updates, present, bhBehaviour, stBehaviour) ==
  LET r == exitWithReload(updates)
  IN  IF r.kind # "return" \/ r.result[1].success
      THEN r
      ELSE Then(r, exitGracefullyFallback(config, present, bhBehaviour,
                                          stBehaviour))

\* exitGracefully without "await" before this.exitWithReload(): the
\* pending promise has no success field and the chain goes on at once
exitGracefullyMissingAwait(config, updates, present, bhBehaviour, stBehaviour) ==
  IF config.useReload
  THEN LET r == exitWithReload(updates)
       IN  IF r.kind = "return" /\ r.result[1].success
           THEN r
           ELSE Then(r, exitGracefullyFallback(config, present, bhBehaviour,
                                               stBehaviour))
  ELSE exitGracefullyFallback(config, present, bhBehaviour, stBehaviour)

\* exitGracefully up to the await of the reload promise, or to its end
exitGracefully(config, updates, present, bhBehaviour, stBehaviour) ==
  IF config.useReload
  THEN LET r == exitWithReload(updates)
       IN  IF r.kind # "return" \/ r.result[1].success
           THEN r
           ELSE Then(r, exitGracefullyFallback(config, present, bhBehaviour,
                                               stBehaviour))
  ELSE exitGracefullyFallback(config, present, bhBehaviour, stBehaviour)


\* exitGracefully without "if (reloadResult.success) return"
exitGracefullySettledIgnoresSuccess(config, settlement, present, bhBehaviour, stBehaviour) ==
  Then(exitWithReloadSettled(settlement),
       exitGracefullyFallback(config, present, bhBehaviour, stBehaviour))

\* exitGracefully from the moment the awaited reload promise settles
exitGracefullySettled(config, settlement, present, bhBehaviour, stBehaviour) ==
  LET r == exitWithReloadSettled(settlement)
  IN  IF r.kind # "return" \/ r.result[1].success
      THEN r
      ELSE Then(r, exitGracefullyFallback(config, present, bhBehaviour,
                                          stBehaviour))

(***************************************************************************)
(* exitWithStrategy and exit.                                              *)
(***************************************************************************)

\* the switch with "return" missing in the BACK_HANDLER case: the call
\* ends with undefined
DispatchDropsReturn(strategy, config, updates, present, bhBehaviour, stBehaviour) ==
  CASE strategy = BACK_HANDLER ->
         [exitWithBackHandler(present, bhBehaviour) EXCEPT !.result = <<>>]
    [] strategy = RELOAD -> exitWithReload(updates)
    [] strategy = FORCE_CRASH ->
         exitWithForceCrash(config.errorMessage, config.forceDelay, stBehaviour)
    [] OTHER -> exitGracefully(config, updates, present, bhBehaviour, stBehaviour)

\* the switch without "default:": a strategy that matches no case leaves
\* the switch and the call ends with undefined
DispatchNoDefault(strategy, config, updates, present, bhBehaviour, stBehaviour) ==
  CASE strategy = BACK_HANDLER -> exitWithBackHandler(present, bhBehaviour)
    [] strategy = RELOAD -> exitWithReload(updates)
    [] strategy = FORCE_CRASH ->
         exitWithForceCrash(config.errorMessage, config.forceDelay, stBehaviour)
    [] strategy = GRACEFUL ->
         exitGracefully(config, updates, present, bhBehaviour, stBehaviour)
    [] OTHER ->
         [kind |-> "return", result |-> <<>>, error |-> <<>>, ev |-> <<>>,
          timers |-> <<>>]

\* the switch with the back-handler case falling back to the crash when
\* exitApp fails
DispatchLeafFallsBack(strategy, config, updates, present, bhBehaviour, stBehaviour) ==
  CASE strategy = BACK_HANDLER ->
         exitGracefullyFallback(config, present, bhBehaviour, stBehaviour)
    [] strategy = RELOAD -> exitWithReload(updates)
    [] strategy = FORCE_CRASH ->
         exitWithForceCrash(config.errorMessage, config.forceDelay, stBehaviour)
    [] OTHER -> exitGracefully(config, updates, present, bhBehaviour, stBehaviour)

\* the switch of exitWithStrategy
Dispatch(strategy, config, updates, present, bhBehaviour, stBehaviour) ==
  CASE strategy = BACK_HANDLER -> exitWithBackHandler(present, bhBehaviour)
    [] strategy = RELOAD -> exitWithReload(updates)
    [] strategy = FORCE_CRASH ->
         exitWithForceCrash(config.errorMessage, config.forceDelay, stBehaviour)
    [] OTHER -> exitGracefully(config, updates, present, bhBehaviour, stBehaviour)

\* the switch of exitWithStrategy, resumed when the reload promise settles
DispatchSettled(strategy, config, settlement, present, bhBehaviour, stBehaviour) ==
  IF strategy = RELOAD
  THEN exitWithReloadSettled(settlement)
  ELSE exitGracefullySettled(config, settlement, present, bhBehaviour,
                             stBehaviour)

\* the catch of exitWithStrategy
TopLevelCatch(strategy, step) ==
  IF step.kind = "throw"
  THEN Return(Failure(strategy, MessageOr(step.error[1], "Unknown error")),
              step.ev, step.timers)
  ELSE step

exitWithStrategy(strategy, options, defaults, updates, present, bhBehaviour, stBehaviour) ==
  LET config == Spread(defaults, options)
  IN  [step |-> TopLevelCatch(strategy,
                  Dispatch(strategy, config, updates, present, bhBehaviour,
                           stBehaviour)),
       config |-> config]

exitWithStrategySettled(strategy, config, settlement, present, bhBehaviour, stBehaviour) ==
  TopLevelCatch(strategy,
    DispatchSettled(strategy, config, settlement, present, bhBehaviour,
                    stBehaviour))


\* exit handing the defaults alone to exitWithStrategy
exitDropsOptions(options, defaults, updates, present, bhBehaviour, stBehaviour) ==
  exitWithStrategy(GRACEFUL, defaults, defaults, updates, present,
                   bhBehaviour, stBehaviour)

exit(options, defaults, updates, present, bhBehaviour, stBehaviour) ==
  LET config == Spread(defaults, options)
  IN  exitWithStrategy(GRACEFUL, config, defaults, updates, present,
                       bhBehaviour, stBehaviour)

(***************************************************************************)
(* The capability probes.                                                  *)
(***************************************************************************)
isBackHandlerSupported(present) == present

isReloadSupported(updates) ==
  updates.isEnabled /\ updates.reloadAsync = "function"


\* getSupportedStrategies pushing RELOAD before BACK_HANDLER
getSupportedStrategiesReloadFirst(present, updates) ==
  <<FORCE_CRASH>>
    \o (IF isReloadSupported(updates) THEN <<RELOAD>> ELSE <<>>)
    \o (IF isBackHandlerSupported(present) THEN <<BACK_HANDLER>> ELSE <<>>)
    \o <<GRACEFUL>>

getSupportedStrategies(present, updates) ==
  <<FORCE_CRASH>>
    \o (IF isBackHandlerSupported(present) THEN <<BACK_HANDLER>> ELSE <<>>)
    \o (IF isReloadSupported(updates) THEN <<RELOAD>> ELSE <<>>)
    \o <<GRACEFUL>>

(***************************************************************************)
(* Calls and timers.                                                       *)
(***************************************************************************)
\* which behaviour of a primitive a segment observed: none when the segment
\* did not invoke it
Observed(step, primitive, behaviour) ==
  IF \E k \in 1..Len(step.ev) : step.ev[k] = primitive
  THEN behaviour
  ELSE "none"

PcAfter(step) ==
  IF step.kind = "await" THEN "awaitReload"
  ELSE IF step.kind = "return" THEN "done"
  ELSE "rejected"

\* the record of a call after its first synchronous segment
NewCall(entry, strategy, options, run, updates, bhBehaviour, stBehaviour) ==
  [entry |-> entry,
   strategy |-> strategy,
   options |-> options,
   config |-> run.config,
   isEnabled |-> updates.isEnabled,
   pc |-> PcAfter(run.step),
   log |-> run.step.ev,
   result |-> run.step.result,
   settlement |-> "none",
   exitApp |-> Observed(run.step, "exitApp", bhBehaviour),
   setTimeout |-> Observed(run.step, "setTimeout", stBehaviour)]

\* the timers a segment of call i created
NewTimers(i, step) ==
  [k \in 1..Len(step.timers) |->
     [call |-> i,
      errorMessage |-> step.timers[k].errorMessage,
      delay |-> step.timers[k].delay,
      fired |-> FALSE,
      afterReturn |-> FALSE,
      reported |-> <<>>,
      uncaught |-> <<>>]]

NoProbe ==
  [via |-> "none", fn |-> "none", value |-> FALSE, list |-> <<>>,
   BackHandler |-> FALSE, Updates |-> UpdatesStub]

Init ==
  /\ BackHandler \in BOOLEAN
  /\ updatesInstalled \in BOOLEAN
  /\ Updates \in (IF updatesInstalled
                  THEN [isEnabled : BOOLEAN, reloadAsync : {"function", "null"}]
                  ELSE {UpdatesStub})
  /\ ErrorUtils \in BOOLEAN
  /\ defaultOptions = DefaultOptions
  /\ calls = <<>>
  /\ timers = <<>>
  /\ probe = NoProbe

\* a caller invokes ExitApp.exit(options)
CallExit(options, bhBehaviour, stBehaviour) ==
  /\ LET run == exit(options, defaultOptions, Updates, BackHandler,
                     bhBehaviour, stBehaviour)
     IN  /\ calls' = Append(calls,
                       NewCall("exit", GRACEFUL, options, run, Updates,
                               bhBehaviour, stBehaviour))
         /\ timers' = timers \o NewTimers(Len(calls) + 1, run.step)
  /\ UNCHANGED <<BackHandler, Updates, updatesInstalled, ErrorUtils,
                 defaultOptions, probe>>

\* a caller invokes ExitApp.exitWithStrategy(strategy, options)
\* variant: a call clears the timers still pending when it starts
CallExitWithStrategyClearsTimers(strategy, options, bhBehaviour, stBehaviour) ==
  /\ LET run == exitWithStrategy(strategy, options, defaultOptions, Updates,
                                 BackHandler, bhBehaviour, stBehaviour)
         IsFired(t) == t.fired
     IN  /\ calls' = Append(calls,
                       NewCall("exitWithStrategy", strategy, options, run,
                               Updates, bhBehaviour, stBehaviour))
         /\ timers' = SelectSeq(timers, IsFired)
                         \o NewTimers(Len(calls) + 1, run.step)
  /\ UNCHANGED <<BackHandler, Updates, updatesInstalled, ErrorUtils,
                 defaultOptions, probe>>

\* variant: the merge writes into the defaults (Object.assign on
\* defaultOptions) instead of building a fresh record
CallExitWithStrategyWritesDefaults(strategy, options, bhBehaviour, stBehaviour) ==
  /\ LET run == exitWithStrategy(strategy, options, defaultOptions, Updates,
                                 BackHandler, bhBehaviour, stBehaviour)
     IN  /\ calls' = Append(calls,
                       NewCall("exitWithStrategy", strategy, options, run,
                               Updates, bhBehaviour, stBehaviour))
         /\ timers' = timers \o NewTimers(Len(calls) + 1, run.step)
         /\ defaultOptions' = run.config
  /\ UNCHANGED <<BackHandler, Updates, updatesInstalled, ErrorUtils, probe>>

CallExitWithStrategy(strategy, options, bhBehaviour, stBehaviour) ==
  /\ LET run == exitWithStrategy(strategy, options, defaultOptions, Updates,
                                 BackHandler, bhBehaviour, stBehaviour)
     IN  /\ calls' = Append(calls,
                       NewCall("exitWithStrategy", strategy, options, run,
                               Updates, bhBehaviour, stBehaviour))
         /\ timers' = timers \o NewTimers(Len(calls) + 1, run.step)
  /\ UNCHANGED <<BackHandler, Updates, updatesInstalled, ErrorUtils,
                 defaultOptions, probe>>

\* the platform settles the reloadAsync() promise call i awaits
ReloadSettles(i, settlement, bhBehaviour, stBehaviour) ==
  /\ i \in 1..Len(calls)
  /\ calls[i].pc = "awaitReload"
  /\ LET c == calls[i]
         step == exitWithStrategySettled(c.strategy, c.config, settlement,
                                         BackHandler, bhBehaviour, stBehaviour)
     IN  /\ calls' = [calls EXCEPT ![i] =
                        [c EXCEPT !.pc = PcAfter(step),
                                  !.log = c.log \o step.ev,
                                  !.result = step.result,
                                  !.settlement = settlement,
                                  !.exitApp = Observed(step, "exitApp", bhBehaviour),
                                  !.setTimeout = Observed(step, "setTimeout", stBehaviour)]]
         /\ timers' = timers \o NewTimers(i, step)
  /\ UNCHANGED <<BackHandler, Updates, updatesInstalled, ErrorUtils,
                 defaultOptions, probe>>

\* the delay of timer j has passed: its callback runs
TimerFires(j) ==
  /\ j \in 1..Len(timers)
  /\ ~timers[j].fired
  /\ LET t == timers[j]
         cb == forceCrashCallback(t.errorMessage, ErrorUtils)
     IN  timers' = [timers EXCEPT ![j] =
                      [t EXCEPT !.fired = TRUE,
                                !.afterReturn = (calls[t.call].pc = "done"),
                                !.reported = cb.reported,
                                !.uncaught = cb.uncaught]]
  /\ UNCHANGED <<BackHandler, Updates, updatesInstalled, ErrorUtils,
                 defaultOptions, calls, probe>>

\* the reload subsystem becomes enabled or disabled
UpdatesEnabledChanges ==
  /\ updatesInstalled
  /\ Updates' = [Updates EXCEPT !.isEnabled = ~Updates.isEnabled]
  /\ UNCHANGED <<BackHandler, updatesInstalled, ErrorUtils, defaultOptions,
                 calls, timers, probe>>

\* the global fatal-error hook is installed or removed
ErrorUtilsChanges ==
  /\ ErrorUtils' = ~ErrorUtils
  /\ UNCHANGED <<BackHandler, Updates, updatesInstalled, defaultOptions,
                 calls, timers, probe>>

\* how a caller reaches the class: its static methods, or the callbacks
\* of the useExitApp hook (src/src/hooks.ts), which pass through
Access == {"ExitApp", "useExitApp"}

\* the record of a probe: what it returned and the runtime it looked at
Probed(via, fn, value, list) ==
  [via |-> via, fn |-> fn, value |-> value, list |-> list,
   BackHandler |-> BackHandler, Updates |-> Updates]

ProbeBackHandler(via) ==
  /\ probe' = Probed(via, "isBackHandlerSupported",
                     isBackHandlerSupported(BackHandler), <<>>)
  /\ UNCHANGED <<BackHandler, Updates, updatesInstalled, ErrorUtils,
                 defaultOptions, calls, timers>>

\* variant: isReloadSupported() keeps the answer it gave before
ProbeReloadCached(via) ==
  /\ probe' = Probed(via, "isReloadSupported",
                     IF probe.fn = "isReloadSupported"
                     THEN probe.value
                     ELSE isReloadSupported(Updates), <<>>)
  /\ UNCHANGED <<BackHandler, Updates, updatesInstalled, ErrorUtils,
                 defaultOptions, calls, timers>>

ProbeReload(via) ==
  /\ probe' = Probed(via, "isReloadSupported",
                     isReloadSupported(Updates), <<>>)
  /\ UNCHANGED <<BackHandler, Updates, updatesInstalled, ErrorUtils,
                 defaultOptions, calls, timers>>

ProbeStrategies(via) ==
  /\ probe' = Probed(via, "getSupportedStrategies", FALSE,
                     getSupportedStrategies(BackHandler, Updates))
  /\ UNCHANGED <<BackHandler, Updates, updatesInstalled, ErrorUtils,
                 defaultOptions, calls, timers>>

Next ==
  \/ \E o \in OptionInputs, b \in Behaviours, t \in Behaviours :
       Len(calls) < MaxCalls /\ CallExit(o, b, t)
  \/ \E s \in StrategyInputs, o \in OptionInputs, b \in Behaviours,
        t \in Behaviours :
       Len(calls) < MaxCalls /\ CallExitWithStrategy(s, o, b, t)
  \/ \E i \in 1..Len(calls), r \in Settlements, b \in Behaviours,
        t \in Behaviours :
       ReloadSettles(i, r, b, t)
  \/ \E j \in 1..Len(timers) : TimerFires(j)
  \/ UpdatesEnabledChanges
  \/ ErrorUtilsChanges

Spec == Init /\ [][Next]_vars

\* the probes alone, on a runtime whose capabilities change
ProbeNext ==
  \/ UpdatesEnabledChanges
  \/ ErrorUtilsChanges
  \/ \E via \in Access : ProbeBackHandler(via)
  \/ \E via \in Access : ProbeReload(via)
  \/ \E via \in Access : ProbeStrategies(via)

ProbeSpec == Init /\ [][ProbeNext]_vars

\* calls of the paths that read the merged options, with every option
\* record, on a runtime whose primitives fail: the back-handler throws and
\* the reload is rejected, so that a graceful call reaches the crash
MergeNext ==
  \/ \E o \in AllOptions :
       Len(calls) < MaxCalls /\ CallExit(o, "throwsError", "returns")
  \/ \E s \in {FORCE_CRASH, GRACEFUL}, o \in AllOptions :
       Len(calls) < MaxCalls
         /\ CallExitWithStrategy(s, o, "throwsError", "returns")
  \/ \E i \in 1..Len(calls) :
       ReloadSettles(i, "rejectedError", "throwsError", "returns")
  \/ \E j \in 1..Len(timers) : TimerFires(j)

MergeSpec == Init /\ [][MergeNext]_vars

\* a session of the application: a call and up to MaxCalls later ones,
\* which may overlap, of the strategies that can queue a crash, between
\* probes and changes of the reload subsystem
SessionOptions == {[errorMessage |-> "X", forceDelay |-> 0]}

SessionNext ==
  \/ \E s \in {FORCE_CRASH, GRACEFUL}, o \in SessionOptions :
       Len(calls) < MaxCalls + 1
         /\ CallExitWithStrategy(s, o, "throwsError", "returns")
  \/ \E i \in 1..Len(calls), r \in {"resolved", "rejectedError"} :
       ReloadSettles(i, r, "throwsError", "returns")
  \/ \E j \in 1..Len(timers) : TimerFires(j)
  \/ UpdatesEnabledChanges
  \/ \E via \in Access : ProbeBackHandler(via)
  \/ \E via \in Access : ProbeReload(via)
  \/ \E via \in Access : ProbeStrategies(via)

\* the timer facility runs every callback it was given
TimerFairness == \A j \in 1..(MaxCalls + 1) : WF_vars(TimerFires(j))

SessionSpec == Init /\ [][SessionNext]_vars /\ TimerFairness

\* overlapping calls: a call and up to MaxCalls more, started while
\* earlier ones wait on their reload promise or after they ended, with
\* options of their own and primitives that return or throw
OverlapOptions == {NoOptions, [errorMessage |-> "X", forceDelay |-> 0]}
OverlapBehaviours == {"returns", "throwsError"}

OverlapNext ==
  \/ \E s \in {RELOAD, FORCE_CRASH, GRACEFUL}, o \in OverlapOptions :
       \E b \in OverlapBehaviours, t \in OverlapBehaviours :
         Len(calls) < MaxCalls + 1 /\ CallExitWithStrategy(s, o, b, t)
  \/ \E i \in 1..Len(calls), r \in {"resolved", "rejectedError"} :
       \E b \in OverlapBehaviours, t \in OverlapBehaviours :
         ReloadSettles(i, r, b, t)
  \/ \E j \in 1..Len(timers) : TimerFires(j)
  \/ UpdatesEnabledChanges

OverlapSpec == Init /\ [][OverlapNext]_vars

(***************************************************************************)
(* Vocabulary of the properties.                                           *)
(***************************************************************************)
Invoked(c, primitive) == \E k \in 1..Len(c.log) : c.log[k] = primitive

\* the calls dispatched to the graceful chain by a GracefulExit request
IsGracefulCall(c) == c.strategy = GRACEFUL

IsExitResult(r) ==
  /\ {"success", "strategy"} \subseteq DOMAIN r
  /\ DOMAIN r \subseteq {"success", "strategy", "error"}
  /\ r.success \in BOOLEAN
  /\ r.strategy \in ExitStrategy

Rejections == {"rejectedError", "rejectedValue"}
Throwing == {"throwsError", "throwsValue"}

\* what the call saw of the reload step of the graceful chain
ReloadSkipped(c) == ~c.config.useReload
ReloadFailed(c) ==
  /\ c.config.useReload
  /\ \/ ~c.isEnabled
     \/ Updates.reloadAsync # "function"
     \/ c.settlement \in Rejections
ReloadSucceeded(c) == c.config.useReload /\ c.settlement = "resolved"

\* what the call saw of the back-handler step
BackHandlerFailed(c) == ~BackHandler \/ c.exitApp \in Throwing
BackHandlerSucceeded(c) == BackHandler /\ c.exitApp = "returns"

TimersOf(i) == {j \in 1..Len(timers) : timers[j].call = i}

\* the leaf of the graceful chain a call went into last, by the primitives
\* it invoked
LastLeaf(c) ==
  IF Invoked(c, "setTimeout") THEN FORCE_CRASH
  ELSE IF Invoked(c, "exitApp") THEN BACK_HANDLER
  ELSE RELOAD

ThrownValues ==
  {ErrorObject("exitApp failed"), ErrorObject("reload rejected"), NonErrorValue}

(***************************************************************************)
(* C1: for every strategy and every behaviour of the primitives, a call of *)
(* exit or exitWithStrategy never ends with an exception: once it          *)
(* completes, it has returned one ExitResult; and a throw that reaches the *)
(* catch of exitWithStrategy becomes {success: false, strategy: the        *)
(* requested one, error: the message, or "Unknown error"}.                 *)
(***************************************************************************)
C1_NeverRaises ==
  /\ \A i \in 1..Len(calls) :
       /\ calls[i].pc \in {"awaitReload", "done"}
       /\ calls[i].pc = "done" =>
            /\ Len(calls[i].result) = 1
            /\ IsExitResult(calls[i].result[1])
  /\ \A s \in StrategyInputs, e \in ThrownValues :
       TopLevelCatch(s, Throw(e, <<>>, <<>>)) =
         Return([success |-> FALSE, strategy |-> s,
                 error |-> IF e.isError THEN e.message ELSE "Unknown error"],
                <<>>, <<>>)

\* a graceful call in which every primitive failed has returned a failure
C1_Witness ==
  \E i \in 1..Len(calls) :
    /\ calls[i].pc = "done"
    /\ calls[i].settlement = "rejectedValue"
    /\ calls[i].exitApp = "throwsError"
    /\ calls[i].setTimeout = "throwsValue"
    /\ calls[i].result = <<Failure(FORCE_CRASH, "Force crash failed")>>

(***************************************************************************)
(* C2: a GracefulExit call tries reload (only when useReload), then the    *)
(* back-handler, then the crash, in that order, and stops at the first     *)
(* success: exitApp is invoked only after the reload step was skipped or   *)
(* failed, the crash is scheduled only after the back-handler step failed, *)
(* and the result is that of the first leaf that succeeded, or else the    *)
(* force-crash leaf's.                                                     *)
(***************************************************************************)
C2_GracefulOrder ==
  \A i \in 1..Len(calls) :
    LET c == calls[i]
    IN  IsGracefulCall(c) =>
          /\ \A k, l \in 1..Len(c.log) :
               k < l => <<c.log[k], c.log[l]>> \in
                          {<<"reloadAsync", "exitApp">>,
                           <<"reloadAsync", "setTimeout">>,
                           <<"exitApp", "setTimeout">>}
          /\ Invoked(c, "reloadAsync") => c.config.useReload
          /\ Invoked(c, "exitApp") => ReloadSkipped(c) \/ ReloadFailed(c)
          /\ Invoked(c, "setTimeout") =>
               (ReloadSkipped(c) \/ ReloadFailed(c)) /\ BackHandlerFailed(c)
          /\ c.pc = "done" =>
               c.result =
                 IF ReloadSucceeded(c) THEN <<Success(RELOAD)>>
                 ELSE IF BackHandlerSucceeded(c) THEN <<Success(BACK_HANDLER)>>
                 ELSE IF c.setTimeout = "returns" THEN <<Success(FORCE_CRASH)>>
                 ELSE <<Failure(FORCE_CRASH,
                                IF c.setTimeout = "throwsError"
                                THEN "setTimeout failed"
                                ELSE "Force crash failed")>>

\* a graceful call whose reload was rejected and whose back-handler threw
\* has scheduled the crash, after both
C2_Witness ==
  \E i \in 1..Len(calls) :
    /\ IsGracefulCall(calls[i])
    /\ calls[i].pc = "done"
    /\ calls[i].settlement \in Rejections
    /\ calls[i].log = <<"reloadAsync", "exitApp", "setTimeout">>
    /\ calls[i].result = <<Success(FORCE_CRASH)>>

(***************************************************************************)
(* C3: a graceful call with useReload true whose reload promise resolves   *)
(* returns {success: true, strategy: reload}; it never invokes exitApp and *)
(* never schedules a crash.                                                *)
(***************************************************************************)
C3_ReloadShortCircuits ==
  \A i \in 1..Len(calls) :
    LET c == calls[i]
    IN  (IsGracefulCall(c) /\ c.config.useReload /\ c.settlement = "resolved") =>
          /\ c.pc = "done"
          /\ c.result = <<Success(RELOAD)>>
          /\ ~Invoked(c, "exitApp")
          /\ ~Invoked(c, "setTimeout")
          /\ TimersOf(i) = {}

C3_Witness ==
  \E i \in 1..Len(calls) :
    /\ calls[i].entry = "exit"
    /\ calls[i].options = NoOptions
    /\ calls[i].settlement = "resolved"
    /\ calls[i].pc = "done"
    /\ BackHandler

(***************************************************************************)
(* C4 (as amended): a graceful call with useReload false on a runtime      *)
(* without a back-handler falls through both earlier steps without         *)
(* invoking reloadAsync or exitApp and attempts the crash: when setTimeout *)
(* returns, the crash is scheduled and the result is {success: true,       *)
(* strategy: forceCrash}; when setTimeout throws, nothing is scheduled and *)
(* the result is a failure of strategy forceCrash.                         *)
(***************************************************************************)
C4_FallsThroughToCrash ==
  \A i \in 1..Len(calls) :
    LET c == calls[i]
    IN  (IsGracefulCall(c) /\ ~c.config.useReload /\ ~BackHandler) =>
          /\ c.pc = "done"
          /\ c.log = <<"setTimeout">>
          /\ c.result[1].strategy = FORCE_CRASH
          /\ IF c.setTimeout = "returns"
             THEN /\ c.result = <<Success(FORCE_CRASH)>>
                  /\ \E j \in TimersOf(i) :
                       /\ timers[j].errorMessage = c.config.errorMessage
                       /\ timers[j].delay = c.config.forceDelay
             ELSE /\ ~c.result[1].success
                  /\ TimersOf(i) = {}

C4_Witness ==
  \E i \in 1..Len(calls) :
    /\ IsGracefulCall(calls[i])
    /\ ~calls[i].config.useReload
    /\ ~BackHandler
    /\ calls[i].result = <<Success(FORCE_CRASH)>>
    /\ TimersOf(i) # {}

\* C4 as stated: such a call always returns {success: true, strategy:
\* forceCrash} and schedules the crash
C4_Original ==
  \A i \in 1..Len(calls) :
    LET c == calls[i]
    IN  (IsGracefulCall(c) /\ ~c.config.useReload /\ ~BackHandler) =>
          /\ c.result = <<Success(FORCE_CRASH)>>
          /\ ~Invoked(c, "reloadAsync")
          /\ TimersOf(i) # {}

(***************************************************************************)
(* C5 (as amended): exitWithStrategy(forceCrash, {errorMessage: X,         *)
(* forceDelay: d}) never suspends.  When setTimeout returns, the result is *)
(* {success: true, strategy: forceCrash} and one callback carrying X and d *)
(* is queued; the fatal action (the hook invoked with X, or X raised)      *)
(* happens only after the call has returned, for every d including 0, and  *)
(* leaves the returned result as it was.  When setTimeout throws, the      *)
(* result is a failure of strategy forceCrash and nothing is queued.       *)
(***************************************************************************)
C5_CrashAfterReturn ==
  \A i \in 1..Len(calls) :
    LET c == calls[i]
    IN  c.strategy = FORCE_CRASH =>
          /\ c.pc = "done"
          /\ c.log = <<"setTimeout">>
          /\ IF c.setTimeout = "returns"
             THEN /\ c.result = <<Success(FORCE_CRASH)>>
                  /\ Cardinality(TimersOf(i)) = 1
                  /\ \A j \in TimersOf(i) :
                       /\ timers[j].errorMessage = c.config.errorMessage
                       /\ timers[j].delay = c.config.forceDelay
                       /\ timers[j].fired =>
                            /\ timers[j].afterReturn
                            /\ timers[j].reported \o timers[j].uncaught
                                 = <<c.config.errorMessage>>
             ELSE /\ c.result[1] = Failure(FORCE_CRASH,
                                     IF c.setTimeout = "throwsError"
                                     THEN "setTimeout failed"
                                     ELSE "Force crash failed")
                  /\ TimersOf(i) = {}

\* forceDelay 0: the error "X" was raised after the call returned success
C5_Witness ==
  \E i \in 1..Len(calls) :
    /\ calls[i].strategy = FORCE_CRASH
    /\ calls[i].options = [errorMessage |-> "X", forceDelay |-> 0]
    /\ calls[i].result = <<Success(FORCE_CRASH)>>
    /\ \E j \in TimersOf(i) :
         /\ timers[j].fired
         /\ timers[j].delay = 0
         /\ timers[j].uncaught = <<"X">>
         /\ timers[j].afterReturn

\* C5 as stated: every forceCrash call returns {success: true, strategy:
\* forceCrash}, and its fatal action comes after the return
C5_Original ==
  \A i \in 1..Len(calls) :
    calls[i].strategy = FORCE_CRASH =>
      /\ calls[i].pc = "done"
      /\ calls[i].result = <<Success(FORCE_CRASH)>>
      /\ \A j \in TimersOf(i) : timers[j].fired => timers[j].afterReturn

(***************************************************************************)
(* C6 (as amended): exitWithStrategy(reload) returns {success: false,      *)
(* strategy: reload, error: "Updates not enabled"} when Updates.isEnabled  *)
(* is false.  When isEnabled is true and reloadAsync is not callable, it   *)
(* returns a failure of strategy reload whose error is the message of the  *)
(* TypeError the call of reloadAsync raised, not "Updates not enabled".    *)
(* In both cases reloadAsync is not invoked and the call does not suspend. *)
(***************************************************************************)
C6_ReloadUnsupported ==
  \A i \in 1..Len(calls) :
    LET c == calls[i]
    IN  c.strategy = RELOAD =>
          /\ ~c.isEnabled =>
               /\ c.pc = "done"
               /\ c.log = <<>>
               /\ c.result = <<Failure(RELOAD, "Updates not enabled")>>
          /\ (c.isEnabled /\ Updates.reloadAsync # "function") =>
               /\ c.pc = "done"
               /\ c.log = <<>>
               /\ c.result =
                    <<Failure(RELOAD, "Updates.reloadAsync is not a function")>>

C6_Witness ==
  \E i \in 1..Len(calls) :
    /\ calls[i].strategy = RELOAD
    /\ calls[i].isEnabled
    /\ ~isReloadSupported([isEnabled |-> calls[i].isEnabled,
                           reloadAsync |-> Updates.reloadAsync])
    /\ calls[i].pc = "done"
    /\ ~calls[i].result[1].success

\* C6 as stated: whenever isReloadSupported() is false, the error is
\* "Updates not enabled"
C6_Original ==
  \A i \in 1..Len(calls) :
    LET c == calls[i]
    IN  (/\ c.strategy = RELOAD
         /\ ~isReloadSupported([isEnabled |-> c.isEnabled,
                                reloadAsync |-> Updates.reloadAsync])) =>
          /\ c.pc = "done"
          /\ c.result = <<Failure(RELOAD, "Updates not enabled")>>

(***************************************************************************)
(* C7: when isBackHandlerSupported() is false, exitWithStrategy(           *)
(* backHandler) returns a failure of strategy backHandler, the exit        *)
(* primitive is not invoked, and no exception reaches the caller.          *)
(***************************************************************************)
C7_BackHandlerUnsupported ==
  \A i \in 1..Len(calls) :
    LET c == calls[i]
    IN  (c.strategy = BACK_HANDLER /\ ~isBackHandlerSupported(BackHandler)) =>
          /\ c.pc = "done"
          /\ Len(c.result) = 1
          /\ ~c.result[1].success
          /\ c.result[1].strategy = BACK_HANDLER
          /\ ~Invoked(c, "exitApp")

C7_Witness ==
  \E i \in 1..Len(calls) :
    /\ calls[i].strategy = BACK_HANDLER
    /\ ~isBackHandlerSupported(BackHandler)
    /\ calls[i].result =
         <<Failure(BACK_HANDLER, "BackHandler.exitApp is not a function")>>

(***************************************************************************)
(* C8: getSupportedStrategies() returns a sequence that starts with        *)
(* forceCrash and ends with graceful, holds backHandler iff                *)
(* isBackHandlerSupported() and reload iff isReloadSupported(), backHandler*)
(* before reload, and no strategy twice.                                   *)
(***************************************************************************)
C8_SupportedStrategies ==
  probe.fn = "getSupportedStrategies" =>
    LET l == probe.list
        Has(x) == \E k \in 1..Len(l) : l[k] = x
    IN  /\ Len(l) >= 2
        /\ l[1] = FORCE_CRASH
        /\ l[Len(l)] = GRACEFUL
        /\ Has(BACK_HANDLER) <=> isBackHandlerSupported(probe.BackHandler)
        /\ Has(RELOAD) <=> isReloadSupported(probe.Updates)
        /\ \A k, m \in 1..Len(l) :
             /\ (l[k] = BACK_HANDLER /\ l[m] = RELOAD) => k < m
             /\ l[k] = l[m] => k = m
        /\ \A k \in 1..Len(l) : l[k] \in ExitStrategy

C8_Witness ==
  /\ probe.fn = "getSupportedStrategies"
  /\ probe.list = <<FORCE_CRASH, BACK_HANDLER, RELOAD, GRACEFUL>>

(***************************************************************************)
(* C9: every result returned by exit or exitWithStrategy has an error      *)
(* field iff its success is false.                                         *)
(***************************************************************************)
C9_ErrorIffFailure ==
  \A i \in 1..Len(calls) :
    \A k \in 1..Len(calls[i].result) :
      ("error" \in DOMAIN calls[i].result[k]) <=> ~calls[i].result[k].success

C9_Witness ==
  \E i \in 1..Len(calls) :
    /\ calls[i].strategy = RELOAD
    /\ calls[i].settlement = "rejectedValue"
    /\ calls[i].result = <<Failure(RELOAD, "Reload failed")>>

(***************************************************************************)
(* C10: the strategy of the result of a GracefulExit call is the leaf the  *)
(* call executed last (reload, backHandler or forceCrash), never graceful. *)
(***************************************************************************)
C10_LeafStrategy ==
  \A i \in 1..Len(calls) :
    LET c == calls[i]
    IN  (IsGracefulCall(c) /\ c.pc # "awaitReload") =>
          /\ Len(c.result) = 1
          /\ c.result[1].strategy # GRACEFUL
          /\ c.result[1].strategy = LastLeaf(c)

\* the back-handler threw inside a graceful call: the failure that comes
\* back is the force-crash leaf's
C10_Witness ==
  \E i \in 1..Len(calls) :
    /\ IsGracefulCall(calls[i])
    /\ calls[i].exitApp = "throwsError"
    /\ calls[i].setTimeout = "throwsError"
    /\ calls[i].result = <<Failure(FORCE_CRASH, "setTimeout failed")>>

(***************************************************************************)
(* C11: merging the caller's options with the defaults fills each omitted  *)
(* field from {errorMessage: "App terminated", useReload: true,            *)
(* forceDelay: 100} and keeps each field the caller gave; the force-crash  *)
(* and graceful paths consume the merged record; merging {forceDelay: 5}   *)
(* gives errorMessage "App terminated", useReload true, forceDelay 5.      *)
(***************************************************************************)
OptionFields == {"errorMessage", "useReload", "forceDelay"}

\* the value a field must have after the merge
Merged(options, field) ==
  IF field \in DOMAIN options THEN options[field] ELSE DefaultOptions[field]

C11_MergeDefaults ==
  \A i \in 1..Len(calls) :
    LET c == calls[i]
    IN  /\ DOMAIN c.config = OptionFields
        /\ \A f \in OptionFields : c.config[f] = Merged(c.options, f)
        /\ \A j \in TimersOf(i) :
             /\ timers[j].errorMessage = Merged(c.options, "errorMessage")
             /\ timers[j].delay = Merged(c.options, "forceDelay")
        /\ Invoked(c, "reloadAsync") => Merged(c.options, "useReload")
        /\ c.options = [forceDelay |-> 5] =>
             c.config = [errorMessage |-> "App terminated",
                         useReload |-> TRUE, forceDelay |-> 5]

\* a force-crash call given {forceDelay: 5} queued "App terminated" with
\* delay 5, and the callback ran
C11_Witness ==
  \E i \in 1..Len(calls) :
    /\ calls[i].strategy = FORCE_CRASH
    /\ calls[i].options = [forceDelay |-> 5]
    /\ \E j \in TimersOf(i) :
         /\ timers[j].fired
         /\ timers[j].delay = 5
         /\ timers[j].errorMessage = "App terminated"

(***************************************************************************)
(* C12: exit(options) does what exitWithStrategy(graceful, options) does:  *)
(* in every state where a call can be made, for every option record, the   *)
(* two give the same result, the same primitive invocations and the same   *)
(* timers, and leave the same strategy and merged record for the part      *)
(* after the await; merging the defaults twice gives what merging them     *)
(* once gives.                                                             *)
(***************************************************************************)
C12_ExitIsGraceful ==
  /\ Len(calls) < MaxCalls =>
     \A o \in AllOptions, b \in Behaviours, t \in Behaviours :
       /\ exit(o, defaultOptions, Updates, BackHandler, b, t)
            = exitWithStrategy(GRACEFUL, o, defaultOptions, Updates,
                               BackHandler, b, t)
       /\ Spread(defaultOptions, Spread(defaultOptions, o))
            = Spread(defaultOptions, o)
  /\ \A i \in 1..Len(calls) :
       calls[i].entry = "exit" =>
         /\ calls[i].strategy = GRACEFUL
         /\ calls[i].config = Spread(defaultOptions, calls[i].options)

\* a call of exit with options of its own went down the chain to the crash
C12_Witness ==
  \E i \in 1..Len(calls) :
    /\ calls[i].entry = "exit"
    /\ calls[i].options = [errorMessage |-> "X", forceDelay |-> 0]
    /\ calls[i].pc = "done"
    /\ \E j \in TimersOf(i) : timers[j].errorMessage = "X"

(***************************************************************************)
(* C13: isReloadSupported() is true iff Updates.isEnabled and reloadAsync  *)
(* is callable.  When expo-updates is missing, the stub makes              *)
(* isReloadSupported() return false, makes exitWithStrategy(reload) fail   *)
(* with "Updates not enabled", and keeps reload out of                     *)
(* getSupportedStrategies().                                               *)
(***************************************************************************)
InList(l, x) == \E k \in 1..Len(l) : l[k] = x

C13_ReloadProbeAndStub ==
  /\ isReloadSupported(Updates)
       <=> (Updates.isEnabled /\ Updates.reloadAsync = "function")
  /\ ~updatesInstalled =>
       /\ isReloadSupported(Updates) = FALSE
       /\ ~InList(getSupportedStrategies(BackHandler, Updates), RELOAD)
       /\ \A i \in 1..Len(calls) :
            calls[i].strategy = RELOAD =>
              /\ calls[i].pc = "done"
              /\ ~Invoked(calls[i], "reloadAsync")
              /\ calls[i].result = <<Failure(RELOAD, "Updates not enabled")>>

C13_Witness ==
  /\ ~updatesInstalled
  /\ \E i \in 1..Len(calls) :
       /\ calls[i].strategy = RELOAD
       /\ calls[i].pc = "done"
       /\ ~calls[i].result[1].success

(***************************************************************************)
(* C14: while Updates.isEnabled is false, a reload attempt, asked for by   *)
(* name or as the first step of a graceful call, fails at once with        *)
(* "Updates not enabled" and does not invoke reloadAsync.                  *)
(***************************************************************************)
\* the calls that go down the graceful chain
IsChainCall(c) == c.strategy \notin {BACK_HANDLER, RELOAD, FORCE_CRASH}

C14_DisabledReloadFailsAtOnce ==
  /\ ~Updates.isEnabled =>
       exitWithReload(Updates)
         = Return(Failure(RELOAD, "Updates not enabled"), <<>>, <<>>)
  /\ \A i \in 1..Len(calls) :
       LET c == calls[i]
       IN  (/\ ~c.isEnabled
            /\ c.strategy = RELOAD \/ (IsChainCall(c) /\ c.config.useReload)) =>
             /\ ~Invoked(c, "reloadAsync")
             /\ c.settlement = "none"
             /\ c.pc = "done"
             /\ c.strategy = RELOAD =>
                  c.result = <<Failure(RELOAD, "Updates not enabled")>>

\* reloadAsync is callable but the subsystem is disabled: a graceful call
\* went on to the back-handler without invoking it
C14_Witness ==
  \E i \in 1..Len(calls) :
    /\ IsChainCall(calls[i])
    /\ calls[i].config.useReload
    /\ ~calls[i].isEnabled
    /\ Updates.reloadAsync = "function"
    /\ calls[i].log = <<"exitApp">>

(***************************************************************************)
(* C15: when Updates.isEnabled is true and reloadAsync rejects or throws,  *)
(* the reload leaf returns {success: false, strategy: reload, error: the   *)
(* message of the rejection, or "Reload failed" when the value carries     *)
(* none}; the rejection never reaches the caller, and in a graceful call   *)
(* the chain goes on to the back-handler step.                             *)
(***************************************************************************)
ReloadFailure(settlement) ==
  Failure(RELOAD, IF settlement = "rejectedError" THEN "reload rejected"
                  ELSE "Reload failed")

C15_ReloadRejectionReported ==
  /\ \A r \in Rejections :
       exitWithReloadSettled(r) = Return(ReloadFailure(r), <<>>, <<>>)
  /\ \A i \in 1..Len(calls) :
       LET c == calls[i]
       IN  /\ c.pc # "rejected"
           /\ (c.strategy = RELOAD /\ c.settlement \in Rejections) =>
                /\ c.pc = "done"
                /\ c.result = <<ReloadFailure(c.settlement)>>
           /\ (c.strategy = RELOAD /\ c.isEnabled
                 /\ Updates.reloadAsync # "function") =>
                /\ c.pc = "done"
                /\ ~c.result[1].success
                /\ c.result[1].strategy = RELOAD
           /\ (IsChainCall(c) /\ c.settlement \in Rejections) =>
                /\ c.pc = "done"
                /\ Len(c.result) = 1
                /\ c.result[1].strategy \in {BACK_HANDLER, FORCE_CRASH}
                /\ IF BackHandler
                   THEN Len(c.log) >= 2 /\ c.log[1] = "reloadAsync"
                          /\ c.log[2] = "exitApp"
                   ELSE c.log = <<"reloadAsync", "setTimeout">>

\* a rejection with a value that is no Error, then a back-handler that
\* returned
C15_Witness ==
  \E i \in 1..Len(calls) :
    /\ IsChainCall(calls[i])
    /\ calls[i].settlement = "rejectedValue"
    /\ calls[i].result = <<Success(BACK_HANDLER)>>

(***************************************************************************)
(* C16: when the delayed force-crash action fires, exactly one thing       *)
(* happens, decided by whether global.ErrorUtils.reportFatalError is a     *)
(* function at that moment: the hook is invoked once with an error         *)
(* carrying errorMessage, or an error carrying errorMessage is raised;     *)
(* never both, never neither.                                              *)
(***************************************************************************)
C16_ExactlyOneFatalAction ==
  /\ [](\A j \in 1..Len(timers) :
          Len(timers[j].reported) + Len(timers[j].uncaught)
            = IF timers[j].fired THEN 1 ELSE 0)
  /\ [][\A j \in 1..Len(timers) :
          (~timers[j].fired /\ timers'[j].fired) =>
            IF ErrorUtils
            THEN /\ timers'[j].reported = <<timers[j].errorMessage>>
                 /\ timers'[j].uncaught = <<>>
            ELSE /\ timers'[j].reported = <<>>
                 /\ timers'[j].uncaught = <<timers[j].errorMessage>>]_vars

\* the hook received the call's own message
C16_Witness ==
  \E j \in 1..Len(timers) :
    /\ timers[j].fired
    /\ timers[j].reported = <<"X">>
    /\ timers[j].uncaught = <<>>

\* C17: no operation of the class (a later call, the continuation of a
\* call, a probe) removes or alters a scheduled crash: the list of timers
\* only grows, a pending timer keeps its message and delay until it fires,
\* a fired timer never changes again (it fires once), and, the timer
\* facility being fair, every scheduled timer eventually fires.
C17_NeverCancelled ==
  /\ [][/\ Len(timers') >= Len(timers)
        /\ \A j \in 1..Len(timers) :
             /\ timers'[j].call = timers[j].call
             /\ timers'[j].errorMessage = timers[j].errorMessage
             /\ timers'[j].delay = timers[j].delay
             /\ timers[j].fired => timers'[j] = timers[j]
             /\ (~timers[j].fired /\ timers'[j] # timers[j]) =>
                  /\ timers'[j].fired
                  /\ Len(timers'[j].reported) + Len(timers'[j].uncaught) = 1]_vars
  /\ \A j \in 1..(MaxCalls + 1) :
       [](j \in 1..Len(timers) =>
            <>(j \in 1..Len(timers) /\ timers[j].fired))

\* two crashes were scheduled by two calls, probes and a later call came
\* in between, and both have fired
C17_Witness ==
  /\ Len(timers) >= 2
  /\ timers[1].call # timers[2].call
  /\ timers[1].fired /\ timers[2].fired
  /\ probe.fn # "none"

\* a call that gets as far as invoking reloadAsync()
ReachesReload(c) ==
  /\ c.strategy = RELOAD \/ (IsChainCall(c) /\ c.config.useReload)
  /\ c.isEnabled
  /\ Updates.reloadAsync = "function"

\* C18: a call is pending only at the await of reloadAsync(): it is
\* pending exactly when it reached reloadAsync() and the promise has not
\* settled; while pending it has invoked reloadAsync() and nothing else,
\* has scheduled no crash and has no result; a pending call changes only
\* by the settlement of its promise, so it stays pending, with no
\* fallback, for as long as the promise does not settle; a call that
\* does not reach reloadAsync() ends with an ExitResult in the step that
\* made it.
C18_OnlySuspensionPoint ==
  /\ [](\A i \in 1..Len(calls) :
         LET c == calls[i]
         IN  /\ c.pc \in {"awaitReload", "done"}
             /\ c.pc = "awaitReload"
                  <=> (ReachesReload(c) /\ c.settlement = "none")
             /\ c.pc = "awaitReload" =>
                  /\ c.log = <<"reloadAsync">>
                  /\ c.result = <<>>
                  /\ c.exitApp = "none" /\ c.setTimeout = "none"
                  /\ TimersOf(i) = {}
             /\ c.pc = "done" =>
                  /\ Len(c.result) = 1 /\ IsExitResult(c.result[1])
                  /\ c.settlement \in Settlements <=> ReachesReload(c))
  /\ [][\A i \in 1..Len(calls) :
         (calls[i].pc = "awaitReload" /\ calls'[i] # calls[i]) =>
           /\ calls'[i].settlement \in Settlements
           /\ calls'[i].pc = "done"]_vars

\* a graceful call is pending on the reload promise on a runtime whose
\* back-handler exists, and the back-handler has not been invoked
C18_Witness ==
  \E i \in 1..Len(calls) :
    /\ IsChainCall(calls[i])
    /\ calls[i].pc = "awaitReload"
    /\ BackHandler
    /\ ~Invoked(calls[i], "exitApp")

\* C19: a probe changes nothing but the answer handed to its caller: the
\* runtime, the calls (so no primitive is invoked) and the timers (so no
\* crash is scheduled) are as before; the answer is computed from the
\* runtime as it is at that call, so of two successive isReloadSupported()
\* calls around a change of Updates.isEnabled, with reloadAsync callable,
\* the second answers differently, and so does the second of two
\* getSupportedStrategies() calls.
C19_ProbesPureAndUncached ==
  /\ [](probe.fn # "none" =>
         /\ probe.fn = "isBackHandlerSupported" =>
              (probe.value <=> probe.BackHandler)
         /\ probe.fn = "isReloadSupported" =>
              (probe.value <=> (/\ probe.Updates.isEnabled
                                /\ probe.Updates.reloadAsync = "function"))
         /\ probe.fn = "getSupportedStrategies" =>
              /\ InList(probe.list, BACK_HANDLER) <=> probe.BackHandler
              /\ InList(probe.list, RELOAD)
                   <=> (/\ probe.Updates.isEnabled
                        /\ probe.Updates.reloadAsync = "function"))
  /\ [][probe' # probe =>
         /\ UNCHANGED <<BackHandler, Updates, updatesInstalled, ErrorUtils,
                        defaultOptions, calls, timers>>
         /\ probe'.BackHandler = BackHandler
         /\ probe'.Updates = Updates
         /\ (/\ probe.fn = probe'.fn
             /\ probe.fn \in {"isReloadSupported", "getSupportedStrategies"}
             /\ probe.Updates.isEnabled # Updates.isEnabled
             /\ Updates.reloadAsync = "function") =>
               /\ probe'.value # probe.value \/ probe'.list # probe.list
               /\ probe.fn = "isReloadSupported" =>
                    probe'.value # probe.value
               /\ probe.fn = "getSupportedStrategies" =>
                    (InList(probe'.list, RELOAD)
                       # InList(probe.list, RELOAD))]_vars

\* isReloadSupported() answered true while a call was pending and a crash
\* was queued, and the reload subsystem has been disabled since
C19_Witness ==
  /\ probe.fn = "isReloadSupported"
  /\ probe.value
  /\ ~Updates.isEnabled
  /\ \E i \in 1..Len(calls) : calls[i].pc = "awaitReload"
  /\ \E j \in 1..Len(timers) : ~timers[j].fired

\* C20: exitWithStrategy with a strategy outside the enumeration runs the
\* graceful chain: in every state where a call can be made, for every
\* option record and behaviour of the primitives, its first segment and
\* the continuation after the reload promise settles are those of a
\* GracefulExit request with the same options; such a call invokes the
\* primitives in the order reload, back-handler, crash, and its result
\* carries the leaf it ended in, never the strategy that was asked for.
C20_DefaultIsGraceful ==
  /\ Len(calls) < MaxCalls =>
     \A o \in OptionInputs, b \in Behaviours, t \in Behaviours :
       /\ exitWithStrategy(UNKNOWN_STRATEGY, o, defaultOptions, Updates,
                           BackHandler, b, t)
            = exitWithStrategy(GRACEFUL, o, defaultOptions, Updates,
                               BackHandler, b, t)
       /\ \A r \in Settlements :
            exitWithStrategySettled(UNKNOWN_STRATEGY,
                                    Spread(defaultOptions, o), r,
                                    BackHandler, b, t)
              = exitWithStrategySettled(GRACEFUL, Spread(defaultOptions, o),
                                        r, BackHandler, b, t)
  /\ \A i \in 1..Len(calls) :
       LET c == calls[i]
       IN  c.strategy = UNKNOWN_STRATEGY =>
             /\ \A k, l \in 1..Len(c.log) :
                  k < l => <<c.log[k], c.log[l]>> \in
                             {<<"reloadAsync", "exitApp">>,
                              <<"reloadAsync", "setTimeout">>,
                              <<"exitApp", "setTimeout">>}
             /\ Invoked(c, "reloadAsync") <=>
                  (/\ c.config.useReload /\ c.isEnabled
                   /\ Updates.reloadAsync = "function")
             /\ Invoked(c, "exitApp") <=>
                  (/\ BackHandler
                   /\ c.pc = "done"
                   /\ ReloadSkipped(c) \/ ReloadFailed(c))
             /\ c.pc = "done" =>
                  /\ Len(c.result) = 1
                  /\ c.result[1].strategy = LastLeaf(c)
                  /\ c.result[1].success =>
                       \/ ReloadSucceeded(c)
                       \/ BackHandlerSucceeded(c)
                       \/ c.setTimeout = "returns"

\* a call with an unknown strategy went through the whole chain
C20_Witness ==
  \E i \in 1..Len(calls) :
    /\ calls[i].strategy = UNKNOWN_STRATEGY
    /\ calls[i].pc = "done"
    /\ calls[i].log = <<"reloadAsync", "exitApp", "setTimeout">>
    /\ calls[i].result = <<Success(FORCE_CRASH)>>

\* the primitive a leaf strategy is allowed to use
PrimitiveOf(strategy) ==
  IF strategy = BACK_HANDLER THEN "exitApp"
  ELSE IF strategy = RELOAD THEN "reloadAsync"
  ELSE "setTimeout"

\* C21: a call asked for one leaf strategy stays in that leaf, whether the
\* leaf succeeds or fails: it invokes no primitive but the leaf's own, so
\* a back-handler or reload call schedules no crash and a force-crash call
\* touches neither exitApp nor reloadAsync; and the result it ends with
\* carries the strategy that was asked for.
C21_LeafNeverFallsBack ==
  \A i \in 1..Len(calls) :
    LET c == calls[i]
    IN  c.strategy \in {BACK_HANDLER, RELOAD, FORCE_CRASH} =>
          /\ \A k \in 1..Len(c.log) : c.log[k] = PrimitiveOf(c.strategy)
          /\ Len(c.log) <= 1
          /\ c.strategy # BACK_HANDLER => c.exitApp = "none"
          /\ c.strategy # FORCE_CRASH =>
               c.setTimeout = "none" /\ TimersOf(i) = {}
          /\ c.strategy # RELOAD => c.settlement = "none"
          /\ c.pc = "done" =>
               /\ Len(c.result) = 1
               /\ c.result[1].strategy = c.strategy

\* a back-handler call whose exitApp threw reported the failure and left
\* it at that: no crash is queued
C21_Witness ==
  \E i \in 1..Len(calls) :
    /\ calls[i].strategy = BACK_HANDLER
    /\ calls[i].exitApp = "throwsError"
    /\ calls[i].result = <<Failure(BACK_HANDLER, "exitApp failed")>>
    /\ calls[i].log = <<"exitApp">>
    /\ TimersOf(i) = {}

\* C22: a graceful call that has returned reports success unless the
\* scheduling of the crash threw; it goes to the crash step iff neither
\* the reload step nor the back-handler step reported success, and a crash
\* is queued iff it went there and setTimeout did not throw; where exitApp
\* is callable and does not throw, no crash is attempted, and the call
\* reports back-handler success unless the reload step succeeded first, in
\* which case it reports reload success.
C22_GracefulSucceeds ==
  \A i \in 1..Len(calls) :
    LET c == calls[i]
        earlier == ReloadSucceeded(c) \/ BackHandlerSucceeded(c)
    IN  (IsGracefulCall(c) /\ c.pc = "done") =>
          /\ c.setTimeout \notin Throwing => c.result[1].success
          /\ c.setTimeout \in Throwing => ~c.result[1].success
          /\ Invoked(c, "setTimeout") <=> ~earlier
          /\ TimersOf(i) # {} <=> (~earlier /\ c.setTimeout = "returns")
          /\ (BackHandler /\ c.exitApp \notin Throwing) =>
               /\ ~Invoked(c, "setTimeout")
               /\ TimersOf(i) = {}
               /\ c.result = IF ReloadSucceeded(c)
                             THEN <<Success(RELOAD)>>
                             ELSE <<Success(BACK_HANDLER)>>

\* the reload of a graceful call was rejected, exitApp returned: the call
\* reports back-handler success and nothing is queued
C22_Witness ==
  \E i \in 1..Len(calls) :
    /\ IsGracefulCall(calls[i])
    /\ calls[i].pc = "done"
    /\ calls[i].settlement \in Rejections
    /\ calls[i].exitApp = "returns"
    /\ calls[i].result = <<Success(BACK_HANDLER)>>
    /\ TimersOf(i) = {}

\* the statement as claimed: a crash is queued iff neither earlier step
\* succeeded, and with a working exitApp the result is always the
\* back-handler's
C22_Original ==
  \A i \in 1..Len(calls) :
    LET c == calls[i]
    IN  (IsGracefulCall(c) /\ c.pc = "done") =>
          /\ c.setTimeout \notin Throwing => c.result[1].success
          /\ TimersOf(i) # {}
               <=> ~(ReloadSucceeded(c) \/ BackHandlerSucceeded(c))
          /\ (BackHandler /\ c.exitApp \notin Throwing) =>
               /\ c.result = <<Success(BACK_HANDLER)>>
               /\ TimersOf(i) = {}

\* the result call c would end with had it run alone, given what it was
\* asked, the isEnabled it read and the outcomes it observed
RanAlone(c) ==
  \E b \in Behaviours, t \in Behaviours :
    /\ c.exitApp \in {"none", b}
    /\ c.setTimeout \in {"none", t}
    /\ LET first == exitWithStrategy(c.strategy, c.options, DefaultOptions,
                                     [Updates EXCEPT !.isEnabled = c.isEnabled],
                                     BackHandler, b, t)
       IN  /\ c.config = first.config
           /\ IF first.step.kind = "await"
              THEN /\ c.settlement \in Settlements
                   /\ c.result = exitWithStrategySettled(c.strategy,
                                    first.config, c.settlement, BackHandler,
                                    b, t).result
              ELSE /\ c.settlement = "none"
                   /\ c.result = first.step.result

\* the calls whose force-crash leaf queued its callback
Scheduled == {i \in 1..Len(calls) : calls[i].setTimeout = "returns"}

\* C23: overlapping calls do not interfere.  A call that has ended has the
\* result it would have had alone: a function of its strategy, its
\* options and the outcomes of the primitives it invoked.  The defaults
\* are never written.  Every force-crash leaf whose setTimeout did not
\* throw has a timer of its own, with the message and delay of its own
\* call, and there are no other timers.  A step of one call leaves the
\* record of every other call as it was.
C23_NoInterference ==
  /\ [](/\ defaultOptions = DefaultOptions
        /\ \A i \in 1..Len(calls) :
             /\ calls[i].pc = "done" => RanAlone(calls[i])
             /\ Cardinality(TimersOf(i)) = IF i \in Scheduled THEN 1 ELSE 0
        /\ Len(timers) = Cardinality(Scheduled)
        /\ \A j \in 1..Len(timers) :
             LET c == calls[timers[j].call]
             IN  /\ timers[j].errorMessage
                      = Spread(DefaultOptions, c.options).errorMessage
                 /\ timers[j].delay
                      = Spread(DefaultOptions, c.options).forceDelay)
  /\ [][/\ defaultOptions' = defaultOptions
        /\ \A i, k \in 1..Len(calls) :
             (i # k /\ calls'[i] # calls[i]) => calls'[k] = calls[k]
        /\ Len(calls') > Len(calls) =>
             \A i \in 1..Len(calls) : calls'[i] = calls[i]]_vars

\* a graceful call waits on its reload promise while a later call, with a
\* message of its own, has queued its crash; then the first one, its
\* reload rejected, queues a crash with the default message
C23_Witness ==
  /\ Len(calls) = 2
  /\ calls[1].strategy = GRACEFUL /\ calls[1].pc = "done"
  /\ calls[1].settlement = "rejectedError"
  /\ Len(timers) = 2
  /\ timers[1].call = 2 /\ timers[1].errorMessage = "X"
  /\ timers[2].call = 1 /\ timers[2].errorMessage = "App terminated"

\* the statement as claimed: as many timers as force-crash leaves executed
C23_Original ==
  /\ defaultOptions = DefaultOptions
  /\ \A i \in 1..Len(calls) : calls[i].pc = "done" => RanAlone(calls[i])
  /\ Len(timers)
       = Cardinality({i \in 1..Len(calls) : Invoked(calls[i], "setTimeout")})

\* how many times a call invoked a primitive
Times(c, primitive) ==
  Cardinality({k \in 1..Len(c.log) : c.log[k] = primitive})

\* C24: one call uses each primitive at most once: reloadAsync, exitApp
\* and setTimeout each appear at most once among its invocations and it
\* has at most one timer; a step that failed is not tried again: the
\* invocations of a call only grow, by the steps that follow the reload
\* in the chain, and a call that has ended invokes nothing more.
C24_OneShot ==
  /\ [](\A i \in 1..Len(calls) :
         /\ \A p \in {"reloadAsync", "exitApp", "setTimeout"} :
              Times(calls[i], p) <= 1
         /\ \A k \in 1..Len(calls[i].log) :
              calls[i].log[k] \in {"reloadAsync", "exitApp", "setTimeout"}
         /\ Cardinality(TimersOf(i)) <= 1)
  /\ [][\A i \in 1..Len(calls) :
         /\ Len(calls'[i].log) >= Len(calls[i].log)
         /\ SubSeq(calls'[i].log, 1, Len(calls[i].log)) = calls[i].log
         /\ calls[i].pc = "done" => calls'[i] = calls[i]
         /\ \A j \in 1..Len(timers') :
              (j > Len(timers) /\ timers'[j].call = i) =>
                calls[i].pc = "awaitReload"]_vars

\* reload rejected, exitApp threw, the crash was queued: three
\* invocations, one of each primitive, and one timer
C24_Witness ==
  \E i \in 1..Len(calls) :
    /\ calls[i].pc = "done"
    /\ calls[i].settlement \in Rejections
    /\ calls[i].exitApp \in Throwing
    /\ Times(calls[i], "reloadAsync") = 1
    /\ Times(calls[i], "exitApp") = 1
    /\ Times(calls[i], "setTimeout") = 1
    /\ Cardinality(TimersOf(i)) = 1

====
